---------------------------- MODULE Spec2Model ----------------------------
(***************************************************************************)
(* The OpenRiverCam processing pipeline (src/processing/tasks.py):         *)
(* extract_frames, extract_project_frames, get_aoi, compute_piv,           *)
(* compute_q and filter_piv, run by worker invocations against an S3       *)
(* object store and the worker's local working directory.                  *)
(*                                                                         *)
(* Object keys and local file names are the strings the code builds.  A    *)
(* bucket is the key-ordered index S3 keeps: a sequence of objects in      *)
(* ascending byte order of their keys, which is the order a listing        *)
(* returns them in.  Object bodies are records naming what the bytes       *)
(* stand for.  Times are integers: decode timestamps in microseconds,      *)
(* offsets in milliseconds.                                                *)
(***************************************************************************)
EXTENDS Integers, Sequences, FiniteSets, TLC

VARIABLES
    movies,         \* [Procs -> decoded content of the movie: Seq of [t, ok]]
    store,          \* [bucket name -> key-ordered Seq of [key, body]]
    disk,           \* [local file name -> body or NoFile]: the working directory
    pc,             \* [Procs -> position of the invocation in its stage]
    stage,          \* [Procs -> the stage function the invocation runs]
    n,              \* [Procs -> the frame counter n of the extract loops]
    mem,            \* [Procs -> what the invocation holds in memory]
    status,         \* [Procs -> the value returned (200) or 0]
    err,            \* [Procs -> the exception that ended the invocation]
    runs,           \* [Procs -> invocations started so far]
    posts,          \* Seq of movie ids POSTed to the portal
    written,        \* [Procs -> keys put by the current invocation, in order]
    base,           \* [Procs -> the bucket of the slot when its current series of runs of one stage began]
    attempt,        \* [Procs -> how the current invocation follows the one before it]
    camera_config,  \* the dict handed to get_aoi
    aoi_log,        \* keys named by the logger.error calls of the last get_aoi
    aoi_result,     \* outcome of the last get_aoi: "none", "returned", "KeyError"
    aoi_calls,      \* number of get_aoi calls that returned
    aoi_first,      \* camera_config as the first returning get_aoi left it
    aoi_input       \* camera_config as first handed to get_aoi

vars == <<movies, store, disk, pc, stage, n, mem, status, err, runs, posts,
          written, base, attempt, camera_config, aoi_log, aoi_result, aoi_calls,
          aoi_first, aoi_input>>

pipeVars == <<movies, store, disk, pc, stage, n, mem, status, err, runs, posts,
              written, base, attempt>>

aoiVars == <<camera_config, aoi_log, aoi_result, aoi_calls, aoi_first, aoi_input>>

---------------------------------------------------------------------------
(* Bounds of the model. *)

\* Most frames a short movie decodes to.
MaxFrames == 3
\* Most invocations one worker slot starts.
MaxRuns == 2
\* Most get_aoi calls on one camera_config.
MaxAoiCalls == 2
\* Spacing of the decode timestamps of the sample movies, in microseconds.
FrameStepUs == 40000
\* Decode timestamp of the first frame of a sample movie that starts late.
LateStartUs == 999960500
\* Frames of the long sample movie.
LongFrames == 10001

(* Program constants. *)

\* {:04d}: least width of the frame number in a key.
IdxWidth == 4
\* {:06d}: least width of the millisecond offset in a key.
MsWidth == 6
\* fn.key[-10:-4]: the slice starts 10 characters from the end ...
SliceFrom == 10
\* ... and stops 4 characters from the end.
SliceTo == 4
\* return 200
HttpOk == 200
\* resolution=0.01 in the call of orthorectification, in 1/100 units.
ProjResolution == 1

Procs == {1, 2}

---------------------------------------------------------------------------
(* Strings: byte order, decimal formatting and parsing. *)

\* The characters keys are made of, in ascending byte order, and their bytes.
Chars == ".0123456789ABCDEFGHIJKLMNOPQRSTUVWXYZ_abcdefghijklmnopqrstuvwxyz"

Codes ==
    <<46>> \o [i \in 1..10 |-> 47 + i] \o [i \in 1..26 |-> 64 + i]
           \o <<95>> \o [i \in 1..26 |-> 96 + i]

ByteOf ==
    [c \in {SubSeq(Chars, i, i) : i \in 1..Len(Chars)} |->
        Codes[CHOOSE i \in 1..Len(Chars) : SubSeq(Chars, i, i) = c]]

\* The byte value of a one-character string.
Ord(c) == ByteOf[c]

RECURSIVE Zeros(_)
Zeros(k) == IF k <= 0 THEN "" ELSE "0" \o Zeros(k - 1)

\* Python's "{:0wd}".format(v) for v >= 0: decimal digits, zero-padded to at
\* least w characters, never cut.
FmtD(v, w) ==
    LET s == ToString(v) IN Zeros(w - Len(s)) \o s

RECURSIVE ParseFrom(_, _, _)
ParseFrom(s, i, acc) ==
    IF i > Len(s) THEN acc
    ELSE ParseFrom(s, i + 1, 10 * acc + (Ord(SubSeq(s, i, i)) - 48))

\* Python's int(s) on a string of decimal digits.
ParseInt(s) == ParseFrom(s, 1, 0)

\* Python's s[-a:-b] on a string (the empty string when s is too short to
\* hold it is not needed: every key is longer than SliceFrom).
SliceFromEnd(s, a, b) == SubSeq(s, Len(s) - a + 1, Len(s) - b)

RECURSIVE LessFrom(_, _, _)
LessFrom(a, b, i) ==
    IF i > Len(a) THEN i <= Len(b)
    ELSE IF i > Len(b) THEN FALSE
    ELSE LET ca == Ord(SubSeq(a, i, i))
             cb == Ord(SubSeq(b, i, i))
         IN  IF ca # cb THEN ca < cb ELSE LessFrom(a, b, i + 1)

\* S3 lists keys in ascending UTF-8 byte order.
KeyLess(a, b) == LessFrom(a, b, 1)

HasPrefix(s, p) == Len(s) >= Len(p) /\ SubSeq(s, 1, Len(p)) = p

\* A variant that rounds to the nearest millisecond.
TruncMsRounded(t) == (t + 500) \div 1000

\* int(_t * 1000) of a decode timestamp held in microseconds.
TruncMs(t) == t \div 1000

\* "{:s}_{:04d}_{:06d}.jpg".format(prefix, n, int(_t * 1000)), and .tif
FrameKey(prefix, k, t, ext) ==
    prefix \o "_" \o FmtD(k, IdxWidth) \o "_" \o FmtD(TruncMs(t), MsWidth) \o ext

\* timedelta(milliseconds=int(fn.key[-10:-4]))
KeyMs(key) == ParseInt(SliceFromEnd(key, SliceFrom, SliceTo))

---------------------------------------------------------------------------
(* The object store and the working directory. *)

NoFile == [kind |-> "none"]

Bucket(m) == IF m = 1 THEN "b1" ELSE "b2"

\* movie["file"]["identifier"]: the movie's key, and its local file name.
MovieFile(m) == IF m = 1 THEN "m1.mp4" ELSE "m2.mp4"

MovieBody(m) == [kind |-> "movie", movie |-> m]

Buckets == {Bucket(m) : m \in Procs}

Files == {MovieFile(m) : m \in Procs} \cup {"temp.tif", "temp.nc"}

\* A variant that keeps the object a key already names and adds another.
PutObjectKeepingOld(bkt, key, body) ==
    SelectSeq(bkt, LAMBDA o : ~KeyLess(key, o.key))
        \o <<[key |-> key, body |-> body]>>
        \o SelectSeq(bkt, LAMBDA o : KeyLess(key, o.key))

\* s3.Object(bucket, key).put / upload_file: the object is created or replaced.
PutObject(bkt, key, body) ==
    SelectSeq(bkt, LAMBDA o : KeyLess(o.key, key))
        \o <<[key |-> key, body |-> body]>>
        \o SelectSeq(bkt, LAMBDA o : KeyLess(key, o.key))

HasObject(bkt, key) == \E i \in 1..Len(bkt) : bkt[i].key = key

GetObject(bkt, key) ==
    bkt[CHOOSE i \in 1..Len(bkt) : bkt[i].key = key].body

\* s3.Bucket(bucket).objects.filter(Prefix=prefix)
Listing(bkt, prefix) == SelectSeq(bkt, LAMBDA o : HasPrefix(o.key, prefix))


---------------------------------------------------------------------------
(* What the library calls stand for. *)

\* A movie with k frames, the first decoded at t0 microseconds, the frames
\* FrameStepUs apart; bad is the set of frames whose raster cannot be read back.
MovieOf(k, t0, bad) ==
    [i \in 1..k |-> [t |-> t0 + (i - 1) * FrameStepUs, ok |-> (i - 1) \notin bad]]

\* OpenRiverCam.io.frames(fn, ...): the (time, image) pairs of the local file.
Decode(body) == IF body.kind = "movie" THEN movies[body.movie] ELSE <<>>

\* cv2.imencode(".jpg", img) of frame k of movie m.
JpgBody(m, k) == [kind |-> "jpg", movie |-> m, frame |-> k]

\* orthorectification(...) and to_geotiff("temp.tif", ...) of frame k of movie m.
TifBody(m, k) ==
    [kind |-> "tif", movie |-> m, frame |-> k, ok |-> movies[m][k + 1].ok]

\* OpenRiverCam.piv.imread(buf) is not None
Readable(body) == body.kind = "tif" /\ body.ok

\* The frame loop of compute_piv over the listing fns: iteration i + 1 holds
\* fns[i] in frame_a and _ms, fns[i + 1] in frame_b and ms, and calls the PIV
\* kernel when both were read.
PivSteps(fns) ==
    LET pairs == [i \in 1..(Len(fns) - 1) |->
                    [a    |-> fns[i].body,
                     b    |-> fns[i + 1].body,
                     dt   |-> KeyMs(fns[i + 1].key) - KeyMs(fns[i].key),
                     time |-> KeyMs(fns[i + 1].key)]]
    IN  SelectSeq(pairs, LAMBDA s : Readable(s.a) /\ Readable(s.b))

\* The dataset of to_dataset(...): the time steps, the cols/rows of the last
\* pair processed and the transform of the first listed file.
VelocityBody(steps, first) ==
    [kind |-> "nc", var |-> "velocity", steps |-> steps,
     mesh |-> [pair |-> Len(steps), transform |-> first]]

\* resolution = movie["camera_config"]["resolution"], the res_x and res_y of
\* every call of the PIV kernel.
PivResolution(cfg) == cfg["resolution"]

\* OpenRiverCam.piv.piv_filter("temp.nc", ...)
FilterBody(body) == [kind |-> "nc", var |-> "velocity_filter", of |-> body]

\* interp_coords, vector_to_scalar and depth_integrate on "temp.nc"
QDepthBody(body) == [kind |-> "nc", var |-> "q_depth", of |-> body]

\* integrate_flow(ds_points["q"], ...)
QBody(body) == [kind |-> "nc", var |-> "Q", of |-> body]

---------------------------------------------------------------------------
(* The store a complete, undisturbed run of a stage leaves. *)

RECURSIVE PutFrames(_, _, _, _, _)
PutFrames(bkt, m, prefix, ext, k) ==
    IF k >= Len(movies[m]) THEN bkt
    ELSE PutFrames(
            PutObject(bkt, FrameKey(prefix, k, movies[m][k + 1].t, ext),
                      IF ext = ".jpg" THEN JpgBody(m, k) ELSE TifBody(m, k)),
            m, prefix, ext, k + 1)

CanPiv(bkt) == PivSteps(Listing(bkt, "proj")) # <<>>

PivResult(bkt) ==
    LET fns == Listing(bkt, "proj") IN VelocityBody(PivSteps(fns), fns[1].body)

\* The bucket of movie m after stage s ran once, start to end, on bkt.
RunOnce(s, bkt, m) ==
    CASE s = "extract_frames" -> PutFrames(bkt, m, "frame", ".jpg", 0)
      [] s = "extract_project_frames" -> PutFrames(bkt, m, "proj", ".tif", 0)
      [] s = "compute_piv" -> PutObject(bkt, "velocity.nc", PivResult(bkt))
      [] s = "filter_piv" ->
            PutObject(bkt, "velocity_filter.nc",
                      FilterBody(GetObject(bkt, "velocity.nc")))
      [] s = "compute_q" ->
            PutObject(
                PutObject(bkt, "q_depth.nc",
                          QDepthBody(GetObject(bkt, "velocity_filter.nc"))),
                "Q.nc", QBody(GetObject(bkt, "velocity_filter.nc")))

---------------------------------------------------------------------------
(* Invocations.  Slot p works on movie p, in bucket Bucket(p). *)

Stages == {"extract_frames", "extract_project_frames", "compute_piv",
           "filter_piv", "compute_q"}

FirstStep(s) ==
    CASE s = "extract_frames" -> "ef_download"
      [] s = "extract_project_frames" -> "ep_download"
      [] s = "compute_piv" -> "cp_loop"
      [] s = "filter_piv" -> "fp_download"
      [] s = "compute_q" -> "cq_download"

Ended(p) == pc[p] \in {"done", "failed"}

Goto(p, l) == pc' = [pc EXCEPT ![p] = l]

\* An exception leaves the stage function: nothing after it runs.
Raise(p, e) ==
    /\ pc' = [pc EXCEPT ![p] = "failed"]
    /\ err' = [err EXCEPT ![p] = e]

\* The scheduler calls stage s for movie p.  The entry lines of every stage
\* (s3 = utils.get_s3(), n = 0, bucket, fn) set the locals.
Start(p, s) ==
    /\ pc[p] = "idle" \/ Ended(p)
    /\ runs[p] < MaxRuns
    /\ runs' = [runs EXCEPT ![p] = @ + 1]
    /\ stage' = [stage EXCEPT ![p] = s]
    /\ pc' = [pc EXCEPT ![p] = FirstStep(s)]
    /\ n' = [n EXCEPT ![p] = 0]
    /\ mem' = [mem EXCEPT ![p] = NoFile]
    /\ status' = [status EXCEPT ![p] = 0]
    /\ err' = [err EXCEPT ![p] = "none"]
    /\ written' = [written EXCEPT ![p] = <<>>]
    /\ base' = IF Ended(p) /\ stage[p] = s THEN base
               ELSE [base EXCEPT ![p] = store[Bucket(p)]]
    /\ attempt' = [attempt EXCEPT ![p] =
                      IF ~(Ended(p) /\ stage[p] = s) THEN "first"
                      ELSE IF pc[p] = "done" THEN "after_done"
                      ELSE IF written[p] # <<>> THEN "after_partial"
                      ELSE "after_failed"]
    /\ UNCHANGED <<movies, store, disk, posts>>
    /\ UNCHANGED aoiVars

\* A call of the stage (storage, decoding, a kernel, the file system) raises.
Fail(p) ==
    /\ pc[p] \notin {"idle", "done", "failed", "ef_notify"}
    /\ Raise(p, "IOError")
    /\ UNCHANGED <<movies, store, disk, stage, n, mem, status, runs, posts,
                   written, base, attempt>>
    /\ UNCHANGED aoiVars

\* s3.Bucket(bucket).download_file(fn, fn)
DownloadMovie(p, next) ==
    /\ IF HasObject(store[Bucket(p)], MovieFile(p))
       THEN /\ disk' = [disk EXCEPT ![MovieFile(p)] =
                            GetObject(store[Bucket(p)], MovieFile(p))]
            /\ Goto(p, next)
            /\ UNCHANGED err
       ELSE /\ Raise(p, "ClientError")
            /\ UNCHANGED disk
    /\ UNCHANGED <<movies, store, stage, n, mem, status, runs, posts,
                   written, base, attempt>>
    /\ UNCHANGED aoiVars

(* extract_frames *)

EfDownload(p) ==
    /\ pc[p] = "ef_download"
    /\ DownloadMovie(p, "ef_frames")

\* One iteration of the frame loop: encode frame n and put it under dest_fn.
EfPut(p) ==
    /\ pc[p] = "ef_frames"
    /\ LET src == disk[MovieFile(p)]
           frames == Decode(src)
       IN  /\ n[p] < Len(frames)
           /\ LET dest_fn == FrameKey("frame", n[p], frames[n[p] + 1].t, ".jpg")
              IN  /\ store' = [store EXCEPT ![Bucket(p)] =
                                    PutObject(@, dest_fn, JpgBody(src.movie, n[p]))]
                  /\ written' = [written EXCEPT ![p] = Append(@, dest_fn)]
    /\ n' = [n EXCEPT ![p] = @ + 1]
    /\ UNCHANGED <<movies, disk, pc, stage, mem, status, err, runs, posts, base, attempt>>
    /\ UNCHANGED aoiVars

\* The decoder is exhausted: os.remove(fn).
EfRemove(p) ==
    /\ pc[p] = "ef_frames"
    /\ n[p] >= Len(Decode(disk[MovieFile(p)]))
    /\ disk' = [disk EXCEPT ![MovieFile(p)] = NoFile]
    /\ Goto(p, "ef_notify")
    /\ UNCHANGED <<movies, store, stage, n, mem, status, err, runs, posts,
                   written, base, attempt>>
    /\ UNCHANGED aoiVars

\* requests.post(...) reaches the portal; return 200.
EfNotify(p) ==
    /\ pc[p] = "ef_notify"
    /\ posts' = Append(posts, p)
    /\ Goto(p, "done")
    /\ status' = [status EXCEPT ![p] = HttpOk]
    /\ UNCHANGED <<movies, store, disk, stage, n, mem, err, runs, written, base, attempt>>
    /\ UNCHANGED aoiVars

\* requests.post(...) cannot reach the portal and raises.
EfNotifyFail(p) ==
    /\ pc[p] = "ef_notify"
    /\ Raise(p, "ConnectionError")
    /\ UNCHANGED <<movies, store, disk, stage, n, mem, status, runs, posts,
                   written, base, attempt>>
    /\ UNCHANGED aoiVars

(* extract_project_frames *)

EpDownload(p) ==
    /\ pc[p] = "ep_download"
    /\ DownloadMovie(p, "ep_project")

\* Orthorectify frame n and write it to "temp.tif".
EpProject(p) ==
    /\ pc[p] = "ep_project"
    /\ LET src == disk[MovieFile(p)]
       IN  /\ n[p] < Len(Decode(src))
           /\ disk' = [disk EXCEPT !["temp.tif"] = TifBody(src.movie, n[p])]
    /\ mem' = [mem EXCEPT ![p] =
                  [kind |-> "orthorectification", resolution |-> ProjResolution,
                   bbox |-> camera_config["aoi"]["bbox"]]]
    /\ Goto(p, "ep_upload")
    /\ UNCHANGED <<movies, store, stage, n, status, err, runs, posts,
                   written, base, attempt>>
    /\ UNCHANGED aoiVars

\* s3.Bucket(bucket).upload_file("temp.tif", dest_fn); n += 1
EpUpload(p) ==
    /\ pc[p] = "ep_upload"
    /\ LET frames == Decode(disk[MovieFile(p)])
           dest_fn == FrameKey("proj", n[p], frames[n[p] + 1].t, ".tif")
       IN  IF disk["temp.tif"] = NoFile
           THEN /\ Raise(p, "FileNotFoundError")
                /\ UNCHANGED <<store, written, n>>
           ELSE /\ store' = [store EXCEPT ![Bucket(p)] =
                                  PutObject(@, dest_fn, disk["temp.tif"])]
                /\ written' = [written EXCEPT ![p] = Append(@, dest_fn)]
                /\ n' = [n EXCEPT ![p] = @ + 1]
                /\ Goto(p, "ep_project")
                /\ UNCHANGED err
    /\ UNCHANGED <<movies, disk, stage, mem, status, runs, posts, base, attempt>>
    /\ UNCHANGED aoiVars

\* The decoder is exhausted: os.remove(fn); return 200.
EpRemove(p) ==
    /\ pc[p] = "ep_project"
    /\ n[p] >= Len(Decode(disk[MovieFile(p)]))
    /\ disk' = [disk EXCEPT ![MovieFile(p)] = NoFile]
    /\ Goto(p, "done")
    /\ status' = [status EXCEPT ![p] = HttpOk]
    /\ UNCHANGED <<movies, store, stage, n, mem, err, runs, posts, written, base, attempt>>
    /\ UNCHANGED aoiVars

(* Steps the three dataset stages share. *)

\* dataset.to_netcdf("temp.nc", ...): what is in memory goes to temp.nc.
WriteTemp(p, body, next) ==
    /\ disk' = [disk EXCEPT !["temp.nc"] = body]
    /\ Goto(p, next)
    /\ UNCHANGED <<movies, store, stage, n, mem, status, err, runs, posts,
                   written, base, attempt>>
    /\ UNCHANGED aoiVars

\* s3.Bucket(bucket).upload_file("temp.nc", key): what temp.nc holds now.
UploadTemp(p, key, next) ==
    /\ IF disk["temp.nc"] = NoFile
       THEN /\ Raise(p, "FileNotFoundError")
            /\ UNCHANGED <<store, written>>
       ELSE /\ store' = [store EXCEPT ![Bucket(p)] =
                              PutObject(@, key, disk["temp.nc"])]
            /\ written' = [written EXCEPT ![p] = Append(@, key)]
            /\ Goto(p, next)
            /\ UNCHANGED err
    /\ UNCHANGED <<movies, disk, stage, n, mem, status, runs, posts, base, attempt>>
    /\ UNCHANGED aoiVars

\* os.remove("temp.nc"), and return 200 when it is the last line.
RemoveTemp(p, next) ==
    /\ IF disk["temp.nc"] = NoFile
       THEN /\ Raise(p, "FileNotFoundError")
            /\ UNCHANGED <<disk, status>>
       ELSE /\ disk' = [disk EXCEPT !["temp.nc"] = NoFile]
            /\ Goto(p, next)
            /\ status' = [status EXCEPT ![p] = IF next = "done" THEN HttpOk ELSE @]
            /\ UNCHANGED err
    /\ UNCHANGED <<movies, store, stage, n, mem, runs, posts, written, base, attempt>>
    /\ UNCHANGED aoiVars

\* s3.Bucket(bucket).download_file(fn, "temp.nc")
DownloadTemp(p, key, next) ==
    /\ IF HasObject(store[Bucket(p)], key)
       THEN /\ disk' = [disk EXCEPT !["temp.nc"] = GetObject(store[Bucket(p)], key)]
            /\ Goto(p, next)
            /\ UNCHANGED err
       ELSE /\ Raise(p, "ClientError")
            /\ UNCHANGED disk
    /\ UNCHANGED <<movies, store, stage, n, mem, status, runs, posts,
                   written, base, attempt>>
    /\ UNCHANGED aoiVars

\* A library call reads "temp.nc" and keeps its result in memory.
ReadTemp(p, result, next) ==
    /\ IF disk["temp.nc"] = NoFile
       THEN /\ Raise(p, "FileNotFoundError")
            /\ UNCHANGED mem
       ELSE /\ mem' = [mem EXCEPT ![p] = result]
            /\ Goto(p, next)
            /\ UNCHANGED err
    /\ UNCHANGED <<movies, store, disk, stage, n, status, runs, posts,
                   written, base, attempt>>
    /\ UNCHANGED aoiVars

(* compute_piv *)

\* The listing and the frame loop: every pair is read and processed.
CpLoop(p) ==
    /\ pc[p] = "cp_loop"
    /\ mem' = [mem EXCEPT ![p] =
                  [kind |-> "steps",
                   steps |-> PivSteps(Listing(store[Bucket(p)], "proj"))]]
    /\ Goto(p, "cp_mesh")
    /\ UNCHANGED <<movies, store, disk, stage, n, status, err, runs, posts,
                   written, base, attempt>>
    /\ UNCHANGED aoiVars

\* for fn in fns.limit(1): convert_cols_rows(buf, cols, rows); the axes; to_dataset.
\* cols and rows are bound only when a pair was processed, xs, ys, lons and
\* lats only when the listing has a first file.
CpMesh(p) ==
    /\ pc[p] = "cp_mesh"
    /\ LET fns == Listing(store[Bucket(p)], "proj")
       IN  IF mem[p].steps = <<>> \/ fns = <<>>
           THEN /\ Raise(p, "UnboundLocalError")
                /\ UNCHANGED mem
           ELSE /\ mem' = [mem EXCEPT ![p] = VelocityBody(@.steps, fns[1].body)]
                /\ Goto(p, "cp_write")
                /\ UNCHANGED err
    /\ UNCHANGED <<movies, store, disk, stage, n, status, runs, posts,
                   written, base, attempt>>
    /\ UNCHANGED aoiVars

CpWrite(p) ==
    /\ pc[p] = "cp_write"
    /\ WriteTemp(p, mem[p], "cp_upload")

CpUpload(p) ==
    /\ pc[p] = "cp_upload"
    /\ UploadTemp(p, "velocity.nc", "cp_remove")

CpRemove(p) ==
    /\ pc[p] = "cp_remove"
    /\ RemoveTemp(p, "done")

(* filter_piv *)

FpDownload(p) ==
    /\ pc[p] = "fp_download"
    /\ DownloadTemp(p, "velocity.nc", "fp_filter")

FpFilter(p) ==
    /\ pc[p] = "fp_filter"
    /\ ReadTemp(p, FilterBody(disk["temp.nc"]), "fp_remove")

FpRemove(p) ==
    /\ pc[p] = "fp_remove"
    /\ RemoveTemp(p, "fp_write")

FpWrite(p) ==
    /\ pc[p] = "fp_write"
    /\ WriteTemp(p, mem[p], "fp_upload")

FpUpload(p) ==
    /\ pc[p] = "fp_upload"
    /\ UploadTemp(p, "velocity_filter.nc", "fp_cleanup")

FpCleanup(p) ==
    /\ pc[p] = "fp_cleanup"
    /\ RemoveTemp(p, "done")

(* compute_q *)

CqDownload(p) ==
    /\ pc[p] = "cq_download"
    /\ DownloadTemp(p, "velocity_filter.nc", "cq_integrate")

CqIntegrate(p) ==
    /\ pc[p] = "cq_integrate"
    /\ ReadTemp(p, [kind |-> "q", ds_points |-> QDepthBody(disk["temp.nc"]),
                    Q |-> QBody(disk["temp.nc"])], "cq_write_points")

CqWritePoints(p) ==
    /\ pc[p] = "cq_write_points"
    /\ WriteTemp(p, mem[p].ds_points, "cq_upload_points")

CqUploadPoints(p) ==
    /\ pc[p] = "cq_upload_points"
    /\ UploadTemp(p, "q_depth.nc", "cq_write_q")

CqWriteQ(p) ==
    /\ pc[p] = "cq_write_q"
    /\ WriteTemp(p, mem[p].Q, "cq_upload_q")

CqUploadQ(p) ==
    /\ pc[p] = "cq_upload_q"
    /\ UploadTemp(p, "Q.nc", "cq_remove")

CqRemove(p) ==
    /\ pc[p] = "cq_remove"
    /\ RemoveTemp(p, "done")

---------------------------------------------------------------------------
(* get_aoi.  camera_config is a dict: a function from the keys it holds. *)

\* OpenRiverCam.cv.get_aoi(gcps["src"], gcps["dst"], corners)
AoiKernel(src, dst, corners) == <<"polygon", src, dst, corners>>

\* OpenRiverCam.io.to_geojson(bbox, crs=crs)
ToGeojson(bbox, crs) == [type |-> "FeatureCollection", crs |-> crs, features |-> bbox]

RequiredKeys == {"gcps", "corners", "site"}

\* A chain of tests that stops at the first missing key.
AoiErrorsFirstOnly(cfg) ==
    IF "gcps" \notin DOMAIN cfg THEN {"gcps"}
    ELSE IF "corners" \notin DOMAIN cfg THEN {"corners"}
    ELSE {k \in {"site"} : k \notin DOMAIN cfg}

\* The keys the three "if not ... in camera_config" tests log an error for.
AoiErrors(cfg) == {k \in RequiredKeys : k \notin DOMAIN cfg}

\* Whether the three subscriptions after the tests find their keys.
AoiRaises(cfg) ==
    "gcps" \notin DOMAIN cfg \/ "corners" \notin DOMAIN cfg \/ "site" \notin DOMAIN cfg

\* bbox_json as get_aoi derives it.
AoiBbox(cfg) ==
    ToGeojson(AoiKernel(cfg["gcps"].src, cfg["gcps"].dst, cfg["corners"]),
              "EPSG:" \o ToString(cfg["site"].crs))

\* A store that builds the aoi dictionary anew.
AoiStoreFresh(cfg, bbox_json) == ("aoi" :> ("bbox" :> bbox_json)) @@ cfg

\* camera_config after the last four lines of get_aoi.
AoiStore(cfg, bbox_json) ==
    LET aoi == IF "aoi" \in DOMAIN cfg THEN cfg["aoi"] ELSE <<>>
    IN  ("aoi" :> (("bbox" :> bbox_json) @@ aoi)) @@ cfg

\* get_aoi(camera_config)
GetAoi ==
    /\ aoi_calls < MaxAoiCalls
    /\ aoi_log' = AoiErrors(camera_config)
    /\ IF AoiRaises(camera_config)
       THEN /\ aoi_result' = "KeyError"
            /\ UNCHANGED <<camera_config, aoi_calls, aoi_first>>
       ELSE /\ camera_config' = AoiStore(camera_config, AoiBbox(camera_config))
            /\ aoi_result' = "returned"
            /\ aoi_calls' = aoi_calls + 1
            /\ aoi_first' = IF aoi_calls = 0 THEN camera_config' ELSE aoi_first
    /\ UNCHANGED aoi_input
    /\ UNCHANGED pipeVars

---------------------------------------------------------------------------
(* Initial states. *)

\* What the configuration interface may have stored so far.
GcpsChoices == {<<>>} \cup {"gcps" :> [src |-> 1, dst |-> d] : d \in {1, 2}}

CornersChoices == {<<>>} \cup {"corners" :> c : c \in {1, 2}}

SiteChoices == {<<>>} \cup {"site" :> [crs |-> c] : c \in {4326, 32637}}

AoiChoices ==
    {<<>>, "aoi" :> <<>>, "aoi" :> ("window_size" :> 15),
     "aoi" :> (("window_size" :> 15) @@ ("bbox" :> [type |-> "stale"]))}

Configs ==
    {g @@ c @@ s @@ a @@ ("resolution" :> 2) @@ ("lensPosition" :> 3) :
        g \in GcpsChoices, c \in CornersChoices, s \in SiteChoices, a \in AoiChoices}

\* A complete configuration, its AOI derived.
ReadyConfig ==
    LET cfg == ("gcps" :> [src |-> 1, dst |-> 1]) @@ ("corners" :> 1)
               @@ ("site" :> [crs |-> 4326]) @@ ("resolution" :> 2)
               @@ ("lensPosition" :> 3)
    IN  AoiStore(cfg, AoiBbox(cfg))

InitAoi(cfgs) ==
    /\ camera_config \in cfgs
    /\ aoi_input = camera_config
    /\ aoi_first = camera_config
    /\ aoi_log = {}
    /\ aoi_result = "none"
    /\ aoi_calls = 0

\* The rectified frames of movie m as a bucket holds them, the movie beside them.
ProjectedBucket(frames, m) ==
    SortSeq(<<[key |-> MovieFile(m), body |-> MovieBody(m)]>>
              \o [i \in 1..Len(frames) |->
                    [key |-> FrameKey("proj", i - 1, frames[i].t, ".tif"),
                     body |-> [kind |-> "tif", movie |-> m, frame |-> i - 1,
                               ok |-> frames[i].ok]]],
            LAMBDA a, b : KeyLess(a.key, b.key))

\* The bucket of movie m after the first `done` stages of the pipeline
\* (rectification, PIV, filter) completed on it.
BucketAfter(frames, m, done) ==
    LET b0 == <<[key |-> MovieFile(m), body |-> MovieBody(m)]>>
        b1 == ProjectedBucket(frames, m)
        b2 == IF CanPiv(b1) THEN PutObject(b1, "velocity.nc", PivResult(b1)) ELSE b1
        b3 == IF CanPiv(b1)
              THEN PutObject(b2, "velocity_filter.nc",
                             FilterBody(GetObject(b2, "velocity.nc")))
              ELSE b1
    IN  CASE done = 0 -> b0 [] done = 1 -> b1 [] done = 2 -> b2 [] OTHER -> b3

InitSlots ==
    /\ disk = [f \in Files |-> NoFile]
    /\ pc = [p \in Procs |-> "idle"]
    /\ stage = [p \in Procs |-> "none"]
    /\ n = [p \in Procs |-> 0]
    /\ mem = [p \in Procs |-> NoFile]
    /\ status = [p \in Procs |-> 0]
    /\ err = [p \in Procs |-> "none"]
    /\ runs = [p \in Procs |-> 0]
    /\ posts = <<>>
    /\ written = [p \in Procs |-> <<>>]
    /\ base = [p \in Procs |-> <<>>]
    /\ attempt = [p \in Procs |-> "none"]

\* One worker; the movie of slot 1 is any short movie, its pipeline at any stage.
Init ==
    /\ \E k \in 0..MaxFrames, t0 \in {0, LateStartUs} :
         \E bad \in SUBSET (0..(k - 1)) :
            movies = [p \in Procs |-> IF p = 1 THEN MovieOf(k, t0, bad)
                                      ELSE MovieOf(2, 0, {})]
    /\ \E done \in 0..3 :
         store = [b \in Buckets |->
                    IF b = Bucket(1) THEN BucketAfter(movies[1], 1, done)
                    ELSE BucketAfter(movies[2], 2, 0)]
    /\ InitSlots
    /\ InitAoi({ReadyConfig})

\* The steps of a running invocation.
Work(p) ==
    \/ Fail(p)
    \/ EfDownload(p) \/ EfPut(p) \/ EfRemove(p) \/ EfNotify(p) \/ EfNotifyFail(p)
    \/ EpDownload(p) \/ EpProject(p) \/ EpUpload(p) \/ EpRemove(p)
    \/ CpLoop(p) \/ CpMesh(p) \/ CpWrite(p) \/ CpUpload(p) \/ CpRemove(p)
    \/ FpDownload(p) \/ FpFilter(p) \/ FpRemove(p) \/ FpWrite(p) \/ FpUpload(p)
    \/ FpCleanup(p)
    \/ CqDownload(p) \/ CqIntegrate(p) \/ CqWritePoints(p) \/ CqUploadPoints(p)
    \/ CqWriteQ(p) \/ CqUploadQ(p) \/ CqRemove(p)

\* Stages run one at a time, to completion.
Next ==
    \/ \E s \in Stages : Start(1, s)
    \/ Work(1)

Spec == Init /\ [][Next]_vars

---------------------------------------------------------------------------
(* Properties of the stages, one worker running them one at a time. *)

\* The decimal digits of v with zeros in front up to width w.
Padded(v, w) ==
    LET d == ToString(v)
    IN  IF Len(d) >= w THEN d ELSE SubSeq("000000", 1, w - Len(d)) \o d

FrameObjects(bkt, prefix) == {bkt[i] : i \in {j \in 1..Len(bkt) : HasPrefix(bkt[j].key, prefix)}}

\* C2: extract_frames persists the decoded frames in capture order: the k-th
\* frame the decoder yields (k from 0) is put under
\* frame_{k:04d}_{ms:06d}.jpg, ms its decode timestamp truncated to
\* milliseconds, so the keys written are those of frames 0..N-1, in that
\* order, without gap or repeat, and all N of them once the loop has ended.
FramesInCaptureOrder ==
    \A p \in Procs :
        stage[p] = "extract_frames" =>
            /\ Len(written[p]) = n[p]
            /\ \A i \in 1..Len(written[p]) :
                 /\ written[p][i] =
                        "frame_" \o Padded(i - 1, 4) \o "_"
                                 \o Padded(movies[p][i].t \div 1000, 6) \o ".jpg"
                 /\ HasObject(store[Bucket(p)], written[p][i])
                 /\ GetObject(store[Bucket(p)], written[p][i]) = JpgBody(p, i - 1)
            /\ (pc[p] \in {"ef_notify", "done"} \/ err[p] = "ConnectionError")
                  => /\ Len(written[p]) = Len(movies[p])
                     /\ Cardinality(FrameObjects(store[Bucket(p)], "frame"))
                            = Len(movies[p])

\* A three-frame movie whose offsets need seven digits was extracted to the end.
FramesInCaptureOrderWitness ==
    /\ stage[1] = "extract_frames"
    /\ pc[1] = "done"
    /\ Len(written[1]) = 3
    /\ movies[1][1].t = LateStartUs

\* C3: with fewer than two rectified frames in the bucket, compute_piv (when
\* no storage call fails) ends with InsufficientDataError and has written no
\* velocity dataset.
FewFramesInsufficientData ==
    \A p \in Procs :
        ( /\ stage[p] = "compute_piv"
          /\ Ended(p)
          /\ err[p] # "IOError"
          /\ Len(Listing(store[Bucket(p)], "proj")) < 2 )
        => /\ pc[p] = "failed"
           /\ err[p] = "InsufficientDataError"
           /\ written[p] = <<>>

\* C4: once a stage invocation has ended, returned or failed, no scratch
\* file (the downloaded movie, temp.tif, temp.nc) is left on the local disk.
ScratchFilesRemoved ==
    (\A p \in Procs : pc[p] = "idle" \/ Ended(p))
        => \A f \in Files : disk[f] = NoFile

\* C6: the notification of extract_frames is sent only after every frame was
\* persisted, and the run ends the same way, all frames stored and 200
\* returned, whether the POST succeeds or fails.
NotificationFireAndForget ==
    \A p \in Procs :
        ( /\ stage[p] = "extract_frames"
          /\ pc[p] = "ef_notify" \/ (Ended(p) /\ err[p] \in {"none", "ConnectionError"}) )
        => /\ Len(written[p]) = Len(movies[p])
           /\ Ended(p) => status[p] = HttpOk

\* C9: a stage run again with the same inputs, after a completed run or after
\* runs that failed partway, leaves the bucket exactly as one complete run
\* of that stage on the original bucket leaves it.
RerunLeavesSingleRunStore ==
    \A p \in Procs :
        pc[p] = "done" =>
            store[Bucket(p)] = RunOnce(stage[p], base[p], p)

\* A stage completed after an earlier run of it had failed with some of its
\* objects already written.
RerunLeavesSingleRunStoreWitness ==
    /\ pc[1] = "done"
    /\ attempt[1] = "after_partial"
    /\ stage[1] \in {"extract_frames", "extract_project_frames", "compute_q"}

\* The millisecond offset the extractor formatted into the name of a frame.
OffsetOf(body) == movies[body.movie][body.frame + 1].t \div 1000

\* C10: for every pair compute_piv processes, dt (here in milliseconds) is
\* the difference of the offsets the extractor encoded in the two names.
DtIsOffsetDifference ==
    \A p \in Procs :
        (stage[p] = "compute_piv" /\ pc[p] = "cp_mesh") =>
            \A i \in 1..Len(mem[p].steps) :
                mem[p].steps[i].dt
                    = OffsetOf(mem[p].steps[i].b) - OffsetOf(mem[p].steps[i].a)

\* C11: within one compute_piv invocation the mesh is derived once, from the
\* first valid pair and the transform of the first rectified frame, before
\* any later pair is processed: no second pair is processed while the mesh
\* is still to be derived, and the dataset carries the mesh of pair 1.
MeshFromFirstPairBeforeLater ==
    \A p \in Procs :
        stage[p] = "compute_piv" =>
            /\ mem[p].kind = "steps" => Len(mem[p].steps) <= 1
            /\ mem[p].kind = "nc" =>
                  /\ mem[p].mesh.pair = 1
                  /\ mem[p].mesh.transform
                        = Listing(store[Bucket(p)], "proj")[1].body

\* C12: the resolution extract_project_frames passes to the orthorectification
\* is camera_config['resolution'], the value compute_piv converts pixel
\* displacements with.
ProjectedAtConfiguredResolution ==
    \A p \in Procs :
        (stage[p] = "extract_project_frames" /\ mem[p].kind = "orthorectification")
            => mem[p].resolution = PivResolution(camera_config)

---------------------------------------------------------------------------
(* get_aoi on whatever the configuration interface has stored. *)

IdlePipeline ==
    /\ movies = [p \in Procs |-> MovieOf(2, 0, {})]
    /\ store = [b \in Buckets |->
                  IF b = Bucket(1) THEN BucketAfter(movies[1], 1, 0)
                  ELSE BucketAfter(movies[2], 2, 0)]
    /\ InitSlots

InitConfig == IdlePipeline /\ InitAoi(Configs)

NextConfig == GetAoi

SpecAoi == InitConfig /\ [][NextConfig]_vars

\* C7: when camera_config lacks 'gcps', 'corners' or 'site', get_aoi logs an
\* error naming each missing key and does not return: it ends in a KeyError
\* on the missing key, derives no polygon and leaves camera_config as it was.
MissingKeyBlocksAoi ==
    (aoi_result # "none" /\ RequiredKeys \ DOMAIN aoi_input # {}) =>
        /\ aoi_result = "KeyError"
        /\ aoi_log = {"gcps", "corners", "site"} \ DOMAIN aoi_input
        /\ aoi_calls = 0
        /\ camera_config = aoi_input

\* get_aoi was called on a configuration that lacks two of the keys.
MissingKeyBlocksAoiWitness ==
    /\ aoi_result = "KeyError"
    /\ Cardinality(aoi_log) = 2

\* C8: get_aoi is idempotent: applied to its own result it leaves the same
\* camera_config, with the same ['aoi']['bbox'], as the first application;
\* and no key other than ['aoi']['bbox'] differs from the input.
AoiIdempotent ==
    /\ aoi_calls >= 2 => camera_config = aoi_first
    /\ aoi_calls >= 1 =>
         /\ DOMAIN camera_config = DOMAIN aoi_input \cup {"aoi"}
         /\ \A k \in DOMAIN aoi_input \ {"aoi"} : camera_config[k] = aoi_input[k]
         /\ "bbox" \in DOMAIN camera_config["aoi"]
         /\ "aoi" \in DOMAIN aoi_input =>
              /\ DOMAIN camera_config["aoi"] = DOMAIN aoi_input["aoi"] \cup {"bbox"}
              /\ \A k \in DOMAIN aoi_input["aoi"] \ {"bbox"} :
                    camera_config["aoi"][k] = aoi_input["aoi"][k]
         /\ "aoi" \notin DOMAIN aoi_input => DOMAIN camera_config["aoi"] = {"bbox"}

\* get_aoi ran twice on a configuration that already held an AOI with a
\* window size and an older bounding box.
AoiIdempotentWitness ==
    /\ aoi_calls = 2
    /\ "aoi" \in DOMAIN aoi_input
    /\ DOMAIN aoi_input["aoi"] = {"bbox", "window_size"}
    /\ camera_config["aoi"]["bbox"] # aoi_input["aoi"]["bbox"]

---------------------------------------------------------------------------
(* Two workers in one working directory, each on its own movie and bucket. *)

InitPair ==
    /\ \E k \in 1..2 :
         movies = [p \in Procs |-> IF p = 1 THEN MovieOf(k, 0, {})
                                   ELSE MovieOf(2, FrameStepUs, {})]
    /\ \E done \in 0..3 :
         store = [b \in Buckets |->
                    IF b = Bucket(1) THEN BucketAfter(movies[1], 1, done)
                    ELSE BucketAfter(movies[2], 2, done)]
    /\ InitSlots
    /\ InitAoi({ReadyConfig})

\* The scheduler hands each worker one invocation.
NextPair ==
    \E p \in Procs :
        \/ \E s \in Stages : runs[p] = 0 /\ Start(p, s)
        \/ Work(p)

SpecConc == InitPair /\ [][NextPair]_vars

\* C5: two invocations that run at the same time on different movies do not
\* disturb each other: whatever the interleaving, every object an invocation
\* has put in its bucket when it returns is the object it puts there when it
\* runs alone.
ConcurrentRunsIsolated ==
    \A p \in Procs :
        pc[p] = "done" =>
            \A i \in 1..Len(written[p]) :
                GetObject(store[Bucket(p)], written[p][i])
                    = GetObject(RunOnce(stage[p], base[p], p), written[p][i])

---------------------------------------------------------------------------
(* compute_piv on the rectified frames of a long movie. *)

InitLong ==
    /\ \E bad \in SUBSET {1, 2} :
         movies = [p \in Procs |-> IF p = 1 THEN MovieOf(LongFrames, 0, bad)
                                   ELSE MovieOf(2, 0, {})]
    /\ store = [b \in Buckets |->
                  IF b = Bucket(1) THEN ProjectedBucket(movies[1], 1)
                  ELSE BucketAfter(movies[2], 2, 0)]
    /\ InitSlots
    /\ InitAoi({ReadyConfig})

NextLong ==
    \/ Start(1, "compute_piv")
    \/ Fail(1)
    \/ CpLoop(1) \/ CpMesh(1) \/ CpWrite(1) \/ CpUpload(1) \/ CpRemove(1)

SpecLong == InitLong /\ [][NextLong]_vars

\* C1: every pair compute_piv hands to the PIV kernel is a pair of frames
\* adjacent in ascending millisecond offset: frame b is the frame that
\* follows frame a in the movie, also where an unreadable frame made the
\* loop skip pairs.
PairsAdjacentInOffsetOrder ==
    \A p \in Procs :
        (stage[p] = "compute_piv" /\ pc[p] = "cp_mesh") =>
            \A i \in 1..Len(mem[p].steps) :
                /\ mem[p].steps[i].a.movie = mem[p].steps[i].b.movie
                /\ mem[p].steps[i].b.frame = mem[p].steps[i].a.frame + 1
                /\ OffsetOf(mem[p].steps[i].a) < OffsetOf(mem[p].steps[i].b)

===========================================================================
